---- MODULE Spec2Model ----
(***************************************************************************)
(* A model of packages/ckeditor5-engine/src/view/document.js:              *)
(*                                                                         *)
(*   - Document: the registry of named view roots and DOM roots, the       *)
(*     observer registry, and render() with its disable/enable bracket     *)
(*     around the Renderer's reconciliation;                               *)
(*   - ToolbarView with its DynamicGrouping behavior: the items,           *)
(*     ungroupedItems and groupedItems collections and _updateGrouping.    *)
(*                                                                         *)
(* Renderer, DomConverter, the view tree and the observers are             *)
(* collaborators whose code is not in document.js; they are modelled by    *)
(* their contract.                                                         *)
(***************************************************************************)
EXTENDS Integers, Sequences, FiniteSets, Bags, TLC

(***************************************************************************)
(* Bounds of the model.                                                    *)
(***************************************************************************)
\* How many view roots createRoot() may create in one behaviour.
MaxRoots == 2
\* How many attachDomRoot() calls (direct or through createRoot) are made.
MaxAttach == 2
\* How many children a view root may hold.
MaxChildren == 2
\* How many changes the view trees undergo in one behaviour.
MaxChanges == 3

\* How many items a toolbar holds.
MaxItems == 3
MaxExceptions == 1
MaxConfig == 3
\* The widest toolbar element, in half pixels.
MaxWidth == 18
\* How many children the toolbar element may get.
MaxViewChildren == 5

\* Root names; "main" is the default name of createRoot/attachDomRoot/getRoot.
Names == {"main", "side"}
\* The live DOM elements the callers own.
DomElements == {"e1", "e2"}
\* Tag names passed to createRoot as strings.
TagNames == {"div"}
\* Observer constructors.
ObserverTypes == {"MutationObserver", "FocusObserver"}
\* Attribute names and values, and text data, of view nodes.
AttrNames == {"class"}
AttrValues == {"a", "b"}
TextData == {"x", "y"}

\* What Map.get returns for a missing key.
Undefined == "undefined"
\* The view root `undefined` (getRoot of an unregistered name), as a node id.
NoView == 0

(***************************************************************************)
(* JavaScript Map: a function whose domain is the set of keys.             *)
(***************************************************************************)
EmptyMap == <<>>
MapHas(m, k) == k \in DOMAIN m
MapSet(m, k, v) == (k :> v) @@ m
MapGet(m, k, undef) == IF k \in DOMAIN m THEN m[k] ELSE undef

VARIABLES
    \* ---- Document ----
    viewRoots,      \* Map name -> view root (its id, 1..Len(views))
    domRoots,       \* Map name -> DOM element
    observers,      \* Map observer constructor -> observer instance
    views,          \* the view roots created so far: [tag, attrs, children]
    changeListeners,\* the view roots whose 'change' event the Document listens to
    dom,            \* the DOM elements: [tag, attrs, children]
    domToView,      \* DomConverter: DOM element -> view element
    viewToDom,      \* DomConverter: view element -> DOM element
    markedToSync,   \* Renderer: the dirty set of [kind, root, idx]
    constructions,  \* how many times each observer constructor was called
    attachCalls,    \* how many times attachDomRoot ran for each name
    changes,        \* how many 'change' events the view roots have fired
    pc,             \* "idle", or "rendering" while renderer.render() runs
    lastCall        \* the last call of the Document API and how it ended

docVars == <<viewRoots, domRoots, observers, views, changeListeners, dom,
             domToView, viewToDom, markedToSync, constructions, attachCalls,
             changes, pc, lastCall>>

VARIABLES
    \* ---- ToolbarView with the DynamicGrouping behavior ----
    items,          \* view.items
    ungroupedItems, \* DynamicGrouping#ungroupedItems (shown in view.itemsView)
    groupedItems,   \* DynamicGrouping#groupedItems (shown in the dropdown)
    viewChildren,   \* view.children: the children of the toolbar element
    viewFocusables, \* view.focusables
    focusTracker,   \* view.focusTracker: the views whose element it tracks
    cachedPadding,  \* DynamicGrouping#cachedPadding
    rendered,       \* ToolbarView#render() was called: viewElement is set
    inBody,         \* viewElement.ownerDocument.body.contains( viewElement )
    previousWidth,  \* previousWidth of _enableGroupingOnResize
    toolbarWidth,   \* the width of the toolbar element
    padding,        \* the computed horizontal padding of the toolbar element
    uiLanguageDirection,
    tbCall,         \* the last toolbar operation and how it ended
    exceptions,     \* the number of toolbar operations that threw
    tolerated,      \* the number of exceptions after which the toolbar is given up
    shouldGroupWhenFull, \* ToolbarView#options.shouldGroupWhenFull
    itemsViewChildren,   \* view.itemsView.children
    itemNames       \* the config entry each view made by fillFromConfig came from

tbVars == <<items, ungroupedItems, groupedItems, viewChildren, viewFocusables,
            focusTracker, cachedPadding, rendered, inBody, previousWidth,
            toolbarWidth, padding, uiLanguageDirection, tbCall, exceptions,
            tolerated, shouldGroupWhenFull, itemsViewChildren, itemNames>>

vars == <<docVars, tbVars>>

(***************************************************************************)
(* Document: construction.                                                 *)
(***************************************************************************)
Call(op, name, arg, ret, outcome) ==
    [op |-> op, name |-> name, arg |-> arg, ret |-> ret, outcome |-> outcome]

\* The DOM the callers start with.  "e1" is the  div#editor  of createRoot's
\* documentation, with content of its own; "e2" is an empty paragraph.
InitialDom(el) ==
    IF el = "e1"
    THEN [tag |-> "div", attrs |-> ("id" :> "editor"), children |-> <<"x">>]
    ELSE [tag |-> "p", attrs |-> EmptyMap, children |-> <<>>]

DocInit ==
    /\ viewRoots = EmptyMap
    /\ domRoots = EmptyMap
    /\ observers = EmptyMap
    /\ views = <<>>
    /\ changeListeners = {}
    /\ dom = [el \in DomElements |-> InitialDom(el)]
    /\ domToView = EmptyMap
    /\ viewToDom = EmptyMap
    /\ markedToSync = {}
    /\ constructions = [t \in ObserverTypes |-> 0]
    /\ attachCalls = [name \in Names |-> 0]
    /\ changes = 0
    /\ pc = "idle"
    /\ lastCall = Call("new", "", "", 0, "ok")

(***************************************************************************)
(* Collaborators, by their contract.                                       *)
(***************************************************************************)
\* Renderer.markToSync( type, node ): the node joins the dirty set.  A text
\* node is its root and its index among the root's children; idx 0 is the
\* root itself.
MarkToSync(marked, kind, root, idx) ==
    marked \cup {[kind |-> kind, root |-> root, idx |-> idx]}

\* DomConverter.bindElements( domElement, viewElement ): both directions.
BindDomToView(d2v, el, viewRoot) == MapSet(d2v, el, viewRoot)
BindViewToDom(v2d, el, viewRoot) == MapSet(v2d, viewRoot, el)

\* Observer: new Observer( document ), observe(), enable(), disable().
NewObserver(id) == [id |-> id, enabled |-> FALSE, observed |-> EmptyBag]
Observe(o, el, name) == [o EXCEPT !.observed = @ (+) SetToBag({<<el, name>>})]
Enable(o) == [o EXCEPT !.enabled = TRUE]
Disable(o) == [o EXCEPT !.enabled = FALSE]

(***************************************************************************)
(* Document.getRoot, getDomRoot, getObserver.                              *)
(***************************************************************************)
getRoot(vroots, name) == MapGet(vroots, name, NoView)
getDomRoot(name) == MapGet(domRoots, name, Undefined)
getObserver(type) == IF MapHas(observers, type) THEN observers[type].id ELSE 0

(***************************************************************************)
(* Document.addObserver( Observer ).                                       *)
(***************************************************************************)
\* for ( let [ name, domElement ] of this.domRoots ) observer.observe( ... )
RECURSIVE ObserveRoots(_, _, _)
ObserveRoots(o, droots, names) ==
    IF names = {} THEN o
    ELSE LET name == CHOOSE n \in names : TRUE
         IN ObserveRoots(Observe(o, droots[name], name), droots, names \ {name})

ObserveExistingRoots(o, droots) == ObserveRoots(o, droots, DOMAIN droots)

\* addObserver without its early return: a new instance on every call.
AddedObserverAlwaysNew(obs, type, droots) ==
    Enable(ObserveExistingRoots(NewObserver(constructions[type] + 1), droots))

\* The instance registered for the type once addObserver returns.
AddedObserver(obs, type, droots) ==
    IF MapHas(obs, type)
    THEN obs[type]
    ELSE Enable(ObserveExistingRoots(NewObserver(constructions[type] + 1), droots))

addObserver(type) ==
    /\ pc = "idle"
    /\ LET observer == AddedObserver(observers, type, domRoots)
       IN /\ observers' = MapSet(observers, type, observer)
          /\ constructions' =
                 [constructions EXCEPT ![type] = IF observer.id > @ THEN observer.id ELSE @]
          /\ lastCall' = Call("addObserver", "", type, observer.id, "ok")
    /\ UNCHANGED tbVars
    /\ UNCHANGED <<viewRoots, domRoots, views, changeListeners, dom, domToView,
                   viewToDom, markedToSync, attachCalls, changes, pc>>

(***************************************************************************)
(* Document.attachDomRoot( domRoot, name ).                                *)
(***************************************************************************)
\* attachDomRoot without its loop over the observers.
ObserveNewRootOmitted(obs, el, name) == obs

\* for ( let observer of this._observers.values() ) observer.observe( domRoot, name )
ObserveNewRoot(obs, el, name) ==
    [type \in DOMAIN obs |-> Observe(obs[type], el, name)]

\* attachDomRoot without its markToSync call.
MarkAttachedRootOmitted(marked, viewRoot) == marked

\* this.renderer.markToSync( 'CHILDREN', viewRoot )
MarkAttachedRoot(marked, viewRoot) == MarkToSync(marked, "CHILDREN", viewRoot, 0)

\* The body of attachDomRoot, given the viewRoots it reads.
AttachDomRootWith(vroots, el, name) ==
    LET viewRoot == getRoot(vroots, name)
    IN /\ domRoots' = MapSet(domRoots, name, el)
       /\ domToView' = BindDomToView(domToView, el, viewRoot)
       /\ viewToDom' = BindViewToDom(viewToDom, el, viewRoot)
       /\ markedToSync' = MarkAttachedRoot(markedToSync, viewRoot)
       /\ observers' = ObserveNewRoot(observers, el, name)
       /\ attachCalls' = [attachCalls EXCEPT ![name] = @ + 1]

RECURSIVE Sum(_, _)
Sum(f, S) == IF S = {} THEN 0
             ELSE LET x == CHOOSE y \in S : TRUE IN f[x] + Sum(f, S \ {x})
TotalAttachCalls == Sum(attachCalls, Names)

\* A DOM element is owned by one root: the callers attach an element under
\* one name only.
MayAttach(el, name) ==
    /\ TotalAttachCalls < MaxAttach
    /\ \A n \in DOMAIN domRoots \ {name} : domRoots[n] # el

attachDomRoot(el, name) ==
    /\ pc = "idle"
    /\ MayAttach(el, name)
    /\ AttachDomRootWith(viewRoots, el, name)
    /\ lastCall' = Call("attachDomRoot", name, el, 0, "ok")
    /\ UNCHANGED tbVars
    /\ UNCHANGED <<viewRoots, views, changeListeners, dom, constructions, changes, pc>>

(***************************************************************************)
(* Document.createRoot( domRoot, name ).                                   *)
(***************************************************************************)
\* this.viewRoots.set( name, viewRoot )
RegisterViewRoot(vroots, name, viewRoot) == MapSet(vroots, name, viewRoot)

\* createRoot without its call of attachDomRoot.
IsHTMLElementNever(domRoot) == FALSE

\* domRoot instanceof HTMLElement
IsHTMLElement(domRoot) == domRoot \in DomElements

createRoot(domRoot, name) ==
    /\ pc = "idle"
    /\ Len(views) < MaxRoots
    /\ domRoot \in DomElements => MayAttach(domRoot, name)
    /\ LET rootTag == IF domRoot \in TagNames THEN domRoot ELSE dom[domRoot].tag
           viewRoot == Len(views) + 1
       IN /\ views' = Append(views, [tag |-> rootTag, attrs |-> EmptyMap,
                                      children |-> <<>>])
          /\ viewRoots' = RegisterViewRoot(viewRoots, name, viewRoot)
          /\ changeListeners' = changeListeners \cup {viewRoot}
          /\ IF IsHTMLElement(domRoot)
             THEN AttachDomRootWith(viewRoots', domRoot, name)
             ELSE UNCHANGED <<domRoots, domToView, viewToDom, markedToSync,
                              observers, attachCalls>>
          /\ lastCall' = Call("createRoot", name, domRoot, viewRoot, "ok")
    /\ UNCHANGED tbVars
    /\ UNCHANGED <<dom, constructions, changes, pc>>

(***************************************************************************)
(* The view tree's changes.  A root's 'change' event carries (type, node); *)
(* the listener createRoot registered forwards it to the renderer.         *)
(***************************************************************************)
\* A listener that marks the root's children whatever the event carries.
OnChangeMarkingChildren(marked, listeners, kind, root, idx) ==
    IF root \in listeners THEN MarkToSync(marked, "CHILDREN", root, 0) ELSE marked

\* viewRoot.on( 'change', ( evt, type, node ) => this.renderer.markToSync( type, node ) )
OnChange(marked, listeners, kind, root, idx) ==
    IF root \in listeners THEN MarkToSync(marked, kind, root, idx) ELSE marked

MapRemove(m, k) == [x \in DOMAIN m \ {k} |-> m[x]]
InsertAt(seq, i, x) == SubSeq(seq, 1, i - 1) \o <<x>> \o SubSeq(seq, i, Len(seq))
RemoveAt(seq, i) == SubSeq(seq, 1, i - 1) \o SubSeq(seq, i + 1, Len(seq))

\* A change of the registered root `name`: the tree changes, the event fires.
Change(name, kind, idx, view) ==
    /\ pc = "idle"
    /\ changes < MaxChanges
    /\ changes' = changes + 1
    /\ MapHas(viewRoots, name)
    /\ LET root == viewRoots[name]
       IN /\ views' = [views EXCEPT ![root] = view]
          /\ markedToSync' = OnChange(markedToSync, changeListeners, kind, root, idx)
          /\ lastCall' = Call("change", name, kind, idx, "ok")
    /\ UNCHANGED tbVars
    /\ UNCHANGED <<viewRoots, domRoots, observers, changeListeners, dom, domToView,
                   viewToDom, constructions, attachCalls, pc>>

setAttribute(name, key, value) ==
    /\ MapHas(viewRoots, name)
    /\ LET view == views[viewRoots[name]]
       IN Change(name, "ATTRIBUTES", 0, [view EXCEPT !.attrs = MapSet(@, key, value)])

removeAttribute(name, key) ==
    /\ MapHas(viewRoots, name)
    /\ LET view == views[viewRoots[name]]
       IN /\ MapHas(view.attrs, key)
          /\ Change(name, "ATTRIBUTES", 0, [view EXCEPT !.attrs = MapRemove(@, key)])

insertChildren(name, i, data) ==
    /\ MapHas(viewRoots, name)
    /\ LET view == views[viewRoots[name]]
       IN /\ Len(view.children) < MaxChildren
          /\ i \in 1..(Len(view.children) + 1)
          /\ Change(name, "CHILDREN", 0,
                    [view EXCEPT !.children = InsertAt(@, i, data)])

removeChildren(name, i) ==
    /\ MapHas(viewRoots, name)
    /\ LET view == views[viewRoots[name]]
       IN /\ i \in 1..Len(view.children)
          /\ Change(name, "CHILDREN", 0, [view EXCEPT !.children = RemoveAt(@, i)])

setTextData(name, i, data) ==
    /\ MapHas(viewRoots, name)
    /\ LET view == views[viewRoots[name]]
       IN /\ i \in 1..Len(view.children)
          /\ view.children[i] # data
          /\ Change(name, "TEXT", i, [view EXCEPT !.children[i] = data])

(***************************************************************************)
(* Renderer.render(): the reconciliation, by its contract.  Every dirty    *)
(* node that the converter binds to a DOM element is brought in line with  *)
(* the view; the order in which roots are processed is not specified.      *)
(***************************************************************************)
HasMark(kind, root, idx) ==
    [kind |-> kind, root |-> root, idx |-> idx] \in markedToSync

RECURSIVE SyncTexts(_, _, _)
SyncTexts(children, root, i) ==
    IF i > Len(children) \/ i > Len(views[root].children) THEN children
    ELSE SyncTexts(IF HasMark("TEXT", root, i)
                   THEN [children EXCEPT ![i] = views[root].children[i]]
                   ELSE children, root, i + 1)

SyncRoot(d, root) ==
    IF root = NoView \/ ~MapHas(viewToDom, root) THEN d
    ELSE LET el == viewToDom[root]
             attrs == IF HasMark("ATTRIBUTES", root, 0)
                      THEN views[root].attrs ELSE d[el].attrs
             children == IF HasMark("CHILDREN", root, 0)
                         THEN views[root].children
                         ELSE SyncTexts(d[el].children, root, 1)
         IN [d EXCEPT ![el] = [tag |-> d[el].tag, attrs |-> attrs,
                               children |-> children]]

RECURSIVE SyncRoots(_, _, _)
SyncRoots(d, order, k) ==
    IF k = 0 THEN d ELSE SyncRoot(SyncRoots(d, order, k - 1), order[k])

MarkedRoots == {m.root : m \in markedToSync}
Orders(S) == {o \in [1..Cardinality(S) -> S] : \A i, j \in DOMAIN o : i # j => o[i] # o[j]}

(***************************************************************************)
(* Document.render().                                                      *)
(***************************************************************************)
\* render() without its first loop.
DisableAllOmitted(obs) == obs

\* for ( let observer of this._observers.values() ) observer.disable()
DisableAll(obs) == [type \in DOMAIN obs |-> Disable(obs[type])]
\* for ( let observer of this._observers.values() ) observer.enable()
EnableAll(obs) == [type \in DOMAIN obs |-> Enable(obs[type])]

\* render() up to its call of this.renderer.render().
renderBegin ==
    /\ pc = "idle"
    /\ observers' = DisableAll(observers)
    /\ pc' = "rendering"
    /\ UNCHANGED tbVars
    /\ UNCHANGED <<viewRoots, domRoots, views, changeListeners, dom, domToView,
                   viewToDom, markedToSync, constructions, attachCalls, changes, lastCall>>

\* this.renderer.render() returned: the rest of render().
renderEnd ==
    /\ pc = "rendering"
    /\ \E order \in Orders(MarkedRoots) :
           dom' = SyncRoots(dom, order, Len(order))
    /\ markedToSync' = {}
    /\ observers' = EnableAll(observers)
    /\ pc' = "idle"
    /\ lastCall' = Call("render", "", "", 0, "ok")
    /\ UNCHANGED tbVars
    /\ UNCHANGED <<viewRoots, domRoots, views, changeListeners, domToView,
                   viewToDom, constructions, attachCalls, changes>>

\* this.renderer.render() threw: the exception leaves render() at once.
renderThrow ==
    /\ pc = "rendering"
    /\ \E order \in Orders(MarkedRoots) : \E k \in 0..Len(order) :
           dom' = SyncRoots(dom, order, k)
    /\ pc' = "idle"
    /\ lastCall' = Call("render", "", "", 0, "throw")
    /\ UNCHANGED tbVars
    /\ UNCHANGED <<viewRoots, domRoots, observers, views, changeListeners,
                   domToView, viewToDom, markedToSync, constructions, attachCalls,
                   changes>>

\* render() called while this.renderer.render() of an outer render() runs,
\* from a callback of the reconciliation.  render() tests nothing before its
\* first loop: the inner call is a whole render() of its own, and the outer
\* reconciliation goes on when it has returned.
renderReentrant ==
    /\ pc = "rendering"
    /\ \E order \in Orders(MarkedRoots) :
           dom' = SyncRoots(dom, order, Len(order))
    /\ markedToSync' = {}
    /\ observers' = EnableAll(DisableAll(observers))
    /\ lastCall' = Call("render", "", "reentrant", 0, "ok")
    /\ UNCHANGED tbVars
    /\ UNCHANGED <<viewRoots, domRoots, views, changeListeners, domToView,
                   viewToDom, constructions, attachCalls, changes, pc>>

(***************************************************************************)
(* ToolbarView: the environment of the toolbar.  Lengths are in half        *)
(* pixels, so that a computed padding need not be a whole number of pixels. *)
(***************************************************************************)
\* The toolbar items, and the width of each item's element.
Items == 1..MaxItems
ItemWidth(item) == 2 + 2 * (item % 3)
\* The width of a ToolbarSeparatorView and of the grouped items dropdown.
SeparatorWidth == 1
DropdownWidth == 4
\* The widths the toolbar element takes, and its computed paddings.
Widths == {0, MaxWidth - 6, MaxWidth}
Paddings == {1, 2}

\* groupedItemsDropdown, as a member of focusables and of the focus tracker.
Dropdown == 0
\* cachedPadding = null, previousWidth = undefined.
Null == -1

\* The last operation: how it and its _updateGrouping call ended, the number
\* of items that call moved, whether it queried the computed style, how the
\* width compares with the width of the call before when both made their
\* passes, and what destroy() destroyed or disconnected.
TbCall(op, outcome, grouping) ==
    [op |-> op, outcome |-> outcome, grouping |-> grouping, moves |-> 0,
     queried |-> FALSE, trend |-> "none", config |-> <<>>, factory |-> {},
     warned |-> <<>>, destroyed |-> {}]

ToolbarViewInit(limit, options) ==
    /\ items = <<>>
    /\ ungroupedItems = <<>>
    /\ groupedItems = <<>>
    /\ viewChildren = <<"itemsView">>
    /\ viewFocusables = <<>>
    /\ focusTracker = {}
    /\ cachedPadding = Null
    /\ rendered = FALSE
    /\ inBody = FALSE
    /\ previousWidth = Null
    /\ toolbarWidth = MaxWidth
    /\ padding = 0
    /\ uiLanguageDirection \in {"ltr", "rtl"}
    /\ tbCall = TbCall("new", "ok", "none")
    /\ exceptions = 0
    /\ tolerated = limit
    /\ shouldGroupWhenFull = options.shouldGroupWhenFull
    /\ itemsViewChildren = <<>>
    /\ itemNames = EmptyMap

\* new ToolbarView( locale, { shouldGroupWhenFull: true } )
TbInitTolerating(limit) == ToolbarViewInit(limit, [shouldGroupWhenFull |-> TRUE])
TbInit == TbInitTolerating(MaxExceptions)
\* new ToolbarView( locale )
StaticInit == ToolbarViewInit(MaxExceptions, [shouldGroupWhenFull |-> FALSE])

(***************************************************************************)
(* Collection (view.createCollection()) and FocusTracker, by their          *)
(* contract: add() of a member and remove() of a non-member throw.          *)
(***************************************************************************)
Contains(seq, x) == \E i \in DOMAIN seq : seq[i] = x
IndexOf(seq, x) == CHOOSE i \in DOMAIN seq : seq[i] = x /\ \A j \in 1..(i - 1) : seq[j] # x
Without(seq, x) == RemoveAt(seq, IndexOf(seq, x))

\* The state the behavior's methods work on.
Toolbar ==
    [ungroupedItems |-> ungroupedItems, groupedItems |-> groupedItems,
     viewChildren |-> viewChildren, viewFocusables |-> viewFocusables,
     focusTracker |-> focusTracker, cachedPadding |-> cachedPadding,
     thrown |-> FALSE, moves |-> 0, queried |-> FALSE,
     items |-> items, itemsViewChildren |-> itemsViewChildren, itemNames |-> itemNames,
     warned |-> <<>>]

Throw(tb) == [tb EXCEPT !.thrown = TRUE]

(***************************************************************************)
(* DynamicGrouping._updateFocusCycleableItems().                           *)
(***************************************************************************)
UpdateFocusCycleableItems(tb) ==
    [tb EXCEPT !.viewFocusables =
        tb.ungroupedItems \o (IF Len(tb.groupedItems) # 0 THEN <<Dropdown>> ELSE <<>>)]

\* target.bindTo( source ).using( item => item ): what the target does when
\* the source takes an item at an index, or gives one up.
BoundAdd(target, item, index) == InsertAt(target, index + 1, item)
BoundRemove(target, item) == IF Contains(target, item) THEN Without(target, item) ELSE target

\* ungroupedItems.add / remove: itemsView.children is bound to ungroupedItems,
\* and both fire _updateFocusCycleableItems.
UngroupedAdd(tb, item, index) ==
    IF Contains(tb.ungroupedItems, item) \/ index \notin 0..Len(tb.ungroupedItems)
    THEN Throw(tb)
    ELSE UpdateFocusCycleableItems(
             [tb EXCEPT !.ungroupedItems = InsertAt(@, index + 1, item),
                        !.itemsViewChildren = BoundAdd(@, item, index)])

UngroupedRemove(tb, item) ==
    IF ~Contains(tb.ungroupedItems, item)
    THEN Throw(tb)
    ELSE UpdateFocusCycleableItems(
             [tb EXCEPT !.ungroupedItems = Without(@, item),
                        !.itemsViewChildren = BoundRemove(@, item)])

\* groupedItems.add / remove.
GroupedAdd(tb, item, index) ==
    IF Contains(tb.groupedItems, item) \/ index \notin 0..Len(tb.groupedItems)
    THEN Throw(tb)
    ELSE [tb EXCEPT !.groupedItems = InsertAt(@, index + 1, item)]

GroupedRemove(tb, item) ==
    IF ~Contains(tb.groupedItems, item)
    THEN Throw(tb)
    ELSE [tb EXCEPT !.groupedItems = Without(@, item)]

\* view.children.add / remove: both fire _updateFocusCycleableItems.  A
\* separator is a new view each time; the dropdown is one view.
ChildrenAdd(tb, child) ==
    IF child = "dropdown" /\ Contains(tb.viewChildren, child)
    THEN Throw(tb)
    ELSE UpdateFocusCycleableItems([tb EXCEPT !.viewChildren = Append(@, child)])

ChildrenRemove(tb, child) ==
    IF ~Contains(tb.viewChildren, child)
    THEN Throw(tb)
    ELSE UpdateFocusCycleableItems([tb EXCEPT !.viewChildren = Without(@, child)])

ChildrenRemoveLast(tb) ==
    IF Len(tb.viewChildren) = 0
    THEN Throw(tb)
    ELSE UpdateFocusCycleableItems(
             [tb EXCEPT !.viewChildren = SubSeq(@, 1, Len(@) - 1)])

TrackerAdd(tb, view) ==
    IF view \in tb.focusTracker THEN Throw(tb)
    ELSE [tb EXCEPT !.focusTracker = @ \cup {view}]

TrackerRemove(tb, view) == [tb EXCEPT !.focusTracker = @ \ {view}]

(***************************************************************************)
(* Geometry: the children of the toolbar element lie in one row, after the *)
(* leading padding, in the direction of the UI language.                   *)
(***************************************************************************)
Geometry(width) ==
    [width |-> width, padding |-> padding, dir |-> uiLanguageDirection]

RECURSIVE ItemsWidth(_)
ItemsWidth(seq) ==
    IF seq = <<>> THEN 0 ELSE ItemWidth(Head(seq)) + ItemsWidth(Tail(seq))

ChildWidth(tb, child) ==
    CASE child = "itemsView" -> ItemsWidth(tb.ungroupedItems)
      [] child = "separator" -> SeparatorWidth
      [] child = "dropdown" -> DropdownWidth

RECURSIVE ChildrenWidth(_, _)
ChildrenWidth(tb, k) ==
    IF k = 0 THEN 0 ELSE ChildrenWidth(tb, k - 1) + ChildWidth(tb, tb.viewChildren[k])

\* new Rect( element ): the toolbar element.
ToolbarRect(geo) == [left |-> 0, right |-> geo.width]

\* new Rect( element.lastChild ).
LastChildRect(tb, geo) ==
    LET before == ChildrenWidth(tb, Len(tb.viewChildren) - 1)
        all == ChildrenWidth(tb, Len(tb.viewChildren))
    IN IF geo.dir = "ltr"
       THEN [left |-> geo.padding + before, right |-> geo.padding + all]
       ELSE [left |-> geo.width - geo.padding - all,
             right |-> geo.width - geo.padding - before]

\* Number.parseInt( computedStyle[ paddingProperty ] ): whole pixels.
ParseInt(halfPixels) == 2 * (halfPixels \div 2)

(***************************************************************************)
(* DynamicGrouping._areItemsOverflowing: the toolbar after the getter ran  *)
(* (it may cache the padding), and the getter's value.                     *)
(***************************************************************************)
AfterMeasuring(tb, geo) ==
    IF Len(tb.ungroupedItems) = 0 THEN tb
    ELSE IF tb.cachedPadding = Null \/ tb.cachedPadding = 0
         THEN [tb EXCEPT !.cachedPadding = ParseInt(geo.padding), !.queried = TRUE]
         ELSE tb

AreItemsOverflowing(tb, geo) ==
    IF Len(tb.ungroupedItems) = 0 THEN FALSE
    ELSE LET cached == AfterMeasuring(tb, geo).cachedPadding
         IN IF geo.dir = "ltr"
            THEN LastChildRect(tb, geo).right > ToolbarRect(geo).right - cached
            ELSE LastChildRect(tb, geo).left < ToolbarRect(geo).left + cached

(***************************************************************************)
(* Statements in sequence: the next one runs on the toolbar the previous   *)
(* one left, unless that one threw.                                        *)
(***************************************************************************)
Then(value, Op(_)) ==
    CHOOSE r \in {IF t.thrown THEN t ELSE Op(t) : t \in {value}} : TRUE

(***************************************************************************)
(* DynamicGrouping._groupLastItem() and _ungroupFirstItem().               *)
(***************************************************************************)
\* An item went from one collection to the other.
Moved(tb) == IF tb.thrown THEN tb ELSE [tb EXCEPT !.moves = @ + 1]

GroupLastItem(tb) ==
    LET first == Len(tb.groupedItems) = 0
        last == tb.ungroupedItems[Len(tb.ungroupedItems)]
        AddSeparator(t) == IF first THEN ChildrenAdd(t, "separator") ELSE t
        AddDropdown(t) == IF first THEN ChildrenAdd(t, "dropdown") ELSE t
        Track(t) == IF first THEN TrackerAdd(t, Dropdown) ELSE t
        RemoveLast(t) ==
            IF Len(t.ungroupedItems) = 0 THEN Throw(t) ELSE UngroupedRemove(t, last)
        AddGrouped(t) == Moved(GroupedAdd(t, last, 0))
    IN Then(Then(Then(Then(Then(tb, AddSeparator), AddDropdown), Track), RemoveLast),
            AddGrouped)

\* The other end of groupedItems.
LastGrouped(tb) == tb.groupedItems[Len(tb.groupedItems)]

\* this.groupedItems.first
FirstGrouped(tb) == tb.groupedItems[1]

UngroupFirstItem(tb) ==
    LET item == FirstGrouped(tb)
        RemoveFirst(t) == GroupedRemove(t, item)
        AddUngrouped(t) == Moved(UngroupedAdd(t, item, Len(t.ungroupedItems)))
        RemoveDropdown(t) ==
            IF Len(t.groupedItems) = 0 THEN ChildrenRemove(t, "dropdown") ELSE t
        RemoveSeparator(t) ==
            IF Len(t.groupedItems) = 0 THEN ChildrenRemoveLast(t) ELSE t
        Untrack(t) ==
            IF Len(t.groupedItems) = 0 THEN TrackerRemove(t, Dropdown) ELSE t
    IN Then(Then(Then(Then(Then(tb, RemoveFirst), AddUngrouped), RemoveDropdown),
                 RemoveSeparator), Untrack)

(***************************************************************************)
(* DynamicGrouping._updateGrouping().                                      *)
(***************************************************************************)
\* while ( this._areItemsOverflowing ) this._groupLastItem()
RECURSIVE GroupWhileOverflowing(_, _)
GroupWhileOverflowing(tb, geo) ==
    IF AreItemsOverflowing(tb, geo)
    THEN LET Again(t) == GroupWhileOverflowing(t, geo)
         IN Then(Then(AfterMeasuring(tb, geo), GroupLastItem), Again)
    ELSE AfterMeasuring(tb, geo)

\* The pass that never takes an item back.
UngroupWhileFittingOmitted(tb, geo) == tb

\* while ( this.groupedItems.length && !this._areItemsOverflowing ) this._ungroupFirstItem()
RECURSIVE UngroupWhileFitting(_, _)
UngroupWhileFitting(tb, geo) ==
    IF Len(tb.groupedItems) = 0 THEN tb
    ELSE IF ~AreItemsOverflowing(tb, geo)
         THEN LET Again(t) == UngroupWhileFitting(t, geo)
              IN Then(Then(AfterMeasuring(tb, geo), UngroupFirstItem), Again)
         ELSE AfterMeasuring(tb, geo)

\* The pass without the clean-up that puts the last ungrouped item back.
UndoLastUngroupOmitted(tb, geo) == AfterMeasuring(tb, geo)

\* if ( this._areItemsOverflowing ) this._groupLastItem()
UndoLastUngroup(tb, geo) ==
    IF AreItemsOverflowing(tb, geo)
    THEN Then(AfterMeasuring(tb, geo), GroupLastItem)
    ELSE AfterMeasuring(tb, geo)

\* if ( !wereItemsGrouped && this.groupedItems && this.groupedItems.length )
MayUngroup(wereItemsGrouped, tb) == ~wereItemsGrouped /\ Len(tb.groupedItems) # 0

\* The passes of _updateGrouping on a toolbar that is in the visible DOM.
GroupingPasses(tb, geo) ==
    LET wereItemsGrouped == AreItemsOverflowing(tb, geo)
        Group(t) == GroupWhileOverflowing(t, geo)
        Undo(t) == UndoLastUngroup(t, geo)
        Ungroup(t) ==
            IF MayUngroup(wereItemsGrouped, t)
            THEN Then(UngroupWhileFitting(t, geo), Undo)
            ELSE t
    IN Then(Then(tb, Group), Ungroup)

\* this.viewElement is undefined before render(): reading its ownerDocument
\* throws a TypeError.
UpdateGrouping(tb, geo, isRendered, isInBody) ==
    IF tb.thrown THEN tb
    ELSE IF ~isRendered THEN Throw(tb)
    ELSE IF ~isInBody THEN tb
    ELSE GroupingPasses(tb, geo)

\* How a call of _updateGrouping ended.
GroupingOutcome(before, after, isRendered, isInBody) ==
    IF before.thrown THEN "none"
    ELSE IF after.thrown THEN "threw"
    ELSE IF ~isInBody THEN "skipped"
    ELSE "returned"

(***************************************************************************)
(* The operations on a ToolbarView with the DynamicGrouping behavior.      *)
(***************************************************************************)
Commit(tb) ==
    /\ ungroupedItems' = tb.ungroupedItems
    /\ groupedItems' = tb.groupedItems
    /\ viewChildren' = tb.viewChildren
    /\ viewFocusables' = tb.viewFocusables
    /\ focusTracker' = tb.focusTracker
    /\ cachedPadding' = tb.cachedPadding
    /\ itemsViewChildren' = tb.itemsViewChildren

Outcome(tb) == IF tb.thrown THEN "throw" ELSE "ok"

\* The application goes on using the toolbar until `tolerated` operations
\* threw, or until it destroys the toolbar.
InUse == exceptions < tolerated /\ tbCall.op # "destroy"
Finish(tb) == exceptions' = IF tb.thrown THEN exceptions + 1 ELSE exceptions

\* The 'add' listener of view.items set up by DynamicGrouping.
OnItemAdded(tb, item, index) ==
    IF index > Len(tb.ungroupedItems)
    THEN GroupedAdd(tb, item, index - Len(tb.ungroupedItems))
    ELSE UngroupedAdd(tb, item, index)

\* The 'remove' listener of view.items set up by DynamicGrouping.
OnItemRemoved(tb, item, index) ==
    IF index > Len(tb.ungroupedItems)
    THEN GroupedRemove(tb, item)
    ELSE UngroupedRemove(tb, item)

(***************************************************************************)
(* StaticLayout: items is passed through to itemsView.children and to      *)
(* focusables.                                                             *)
(***************************************************************************)
\* Only the visible items follow an insertion.
StaticItemAddedUnfocusable(tb, item, index) ==
    [tb EXCEPT !.itemsViewChildren = BoundAdd(@, item, index)]

StaticItemAdded(tb, item, index) ==
    [tb EXCEPT !.itemsViewChildren = BoundAdd(@, item, index),
               !.viewFocusables = BoundAdd(@, item, index)]

StaticItemRemoved(tb, item, index) ==
    [tb EXCEPT !.itemsViewChildren = BoundRemove(@, item),
               !.viewFocusables = BoundRemove(@, item)]

(***************************************************************************)
(* this._behavior: DynamicGrouping or StaticLayout.                        *)
(***************************************************************************)
BehaviorOnAdd(tb, item, index) ==
    IF shouldGroupWhenFull THEN OnItemAdded(tb, item, index)
    ELSE StaticItemAdded(tb, item, index)

BehaviorOnRemove(tb, item, index) ==
    IF shouldGroupWhenFull THEN OnItemRemoved(tb, item, index)
    ELSE StaticItemRemoved(tb, item, index)

BehaviorUpdate(tb, geo, isRendered, isInBody) ==
    IF shouldGroupWhenFull THEN UpdateGrouping(tb, geo, isRendered, isInBody) ELSE tb

BehaviorOutcome(before, after, isRendered, isInBody) ==
    IF shouldGroupWhenFull THEN GroupingOutcome(before, after, isRendered, isInBody)
    ELSE "none"

\* toolbar.items.add( item, index ): the collection takes the item, then the
\* listeners run in the order of their registration.
itemsAdd(item, index) ==
    /\ InUse
    /\ item \notin {items[i] : i \in DOMAIN items}
    /\ index \in 0..Len(items)
    /\ Len(viewChildren) < MaxViewChildren
    /\ \E t1 \in {BehaviorOnAdd(Toolbar, item, index)} :
       \E t2 \in {BehaviorUpdate(t1, Geometry(toolbarWidth), rendered, inBody)} :
       \E t3 \in {IF rendered /\ ~t2.thrown THEN TrackerAdd(t2, item) ELSE t2} :
          /\ items' = InsertAt(items, index + 1, item)
          /\ Commit(t3)
          /\ tbCall' = [TbCall("add", Outcome(t3), BehaviorOutcome(t1, t2, rendered, inBody))
                           EXCEPT !.moves = t2.moves, !.queried = t2.queried]
          /\ Finish(t3)
    /\ UNCHANGED <<rendered, inBody, previousWidth, toolbarWidth, padding,
                   uiLanguageDirection>>
    /\ UNCHANGED <<docVars, tolerated, shouldGroupWhenFull, itemNames>>

\* toolbar.items.remove( item ).
itemsRemove(item) ==
    /\ InUse
    /\ Contains(items, item)
    /\ Len(viewChildren) < MaxViewChildren
    /\ \E t1 \in {BehaviorOnRemove(Toolbar, item, IndexOf(items, item) - 1)} :
       \E t2 \in {BehaviorUpdate(t1, Geometry(toolbarWidth), rendered, inBody)} :
       \E t3 \in {IF rendered /\ ~t2.thrown THEN TrackerRemove(t2, item) ELSE t2} :
          /\ items' = Without(items, item)
          /\ Commit(t3)
          /\ tbCall' = [TbCall("remove", Outcome(t3), BehaviorOutcome(t1, t2, rendered, inBody))
                           EXCEPT !.moves = t2.moves, !.queried = t2.queried]
          /\ Finish(t3)
    /\ UNCHANGED <<rendered, inBody, previousWidth, toolbarWidth, padding,
                   uiLanguageDirection>>
    /\ UNCHANGED <<docVars, tolerated, shouldGroupWhenFull, itemNames>>

(***************************************************************************)
(* ToolbarView.fillFromConfig( config, factory ).                          *)
(***************************************************************************)
\* The names a toolbar configuration is made of, and the component factories.
ConfigNames == {"|", "bold"}
Configs == UNION {[1..n -> ConfigNames] : n \in 0..MaxConfig}
Factories == SUBSET {"bold"}

Range(seq) == {seq[i] : i \in DOMAIN seq}

\* new ToolbarSeparatorView() and factory.create( name ) give a view that is
\* nowhere in the toolbar yet.
Unused(tb) ==
    Items \ (Range(tb.items) \cup Range(tb.ungroupedItems) \cup Range(tb.groupedItems)
                \cup DOMAIN tb.itemNames \cup tb.focusTracker)

NewView(tb) == CHOOSE item \in Unused(tb) : \A other \in Unused(tb) : item <= other

\* this.items.add( item ): the item goes to the end, then the listeners run.
ItemsAddLast(tb, item) ==
    LET index == Len(tb.items)
        OnAdd(t) == BehaviorOnAdd(t, item, index)
        Update(t) == BehaviorUpdate(t, Geometry(toolbarWidth), rendered, inBody)
        Track(t) == IF rendered THEN TrackerAdd(t, item) ELSE t
    IN Then(Then(Then([tb EXCEPT !.items = Append(@, item)], OnAdd), Update), Track)

\* One entry of the configuration.
FillEntry(tb, name, factory) ==
    IF name = "|" \/ name \in factory
    THEN ItemsAddLast([tb EXCEPT !.itemNames = MapSet(@, NewView(tb), name)], NewView(tb))
    ELSE [tb EXCEPT !.warned = Append(@, name)]

RECURSIVE FillFromConfig(_, _, _)
FillFromConfig(tb, config, factory) ==
    IF config = <<>> THEN tb
    ELSE LET Entry(t) == FillEntry(t, Head(config), factory)
             Rest(t) == FillFromConfig(t, Tail(config), factory)
         IN Then(Then(tb, Entry), Rest)

\* The entries of a configuration that give an item, and those that do not.
Recognized(config, factory) ==
    LET Gives(name) == name = "|" \/ name \in factory IN SelectSeq(config, Gives)

Unrecognized(config, factory) ==
    LET Unknown(name) == ~(name = "|" \/ name \in factory) IN SelectSeq(config, Unknown)

fillFromConfig(config, factory) ==
    /\ InUse
    /\ Len(viewChildren) < MaxViewChildren
    /\ Len(Recognized(config, factory)) <= Cardinality(Unused(Toolbar))
    /\ \E t \in {FillFromConfig(Toolbar, config, factory)} :
          /\ items' = t.items
          /\ itemNames' = t.itemNames
          /\ Commit(t)
          /\ tbCall' = [TbCall("fillFromConfig", Outcome(t), "none")
                           EXCEPT !.moves = t.moves, !.queried = t.queried,
                                  !.config = config, !.factory = factory,
                                  !.warned = t.warned]
          /\ Finish(t)
    /\ UNCHANGED <<rendered, inBody, previousWidth, toolbarWidth, padding,
                   uiLanguageDirection>>
    /\ UNCHANGED <<docVars, tolerated, shouldGroupWhenFull>>

\* ToolbarView.render(): the element is created (and styled) detached from
\* the document, so the first _updateGrouping returns at once.
toolbarRender ==
    /\ InUse
    /\ ~rendered
    /\ rendered' = TRUE
    /\ padding' \in Paddings
    /\ previousWidth' = Null
    /\ \E t1 \in {[Toolbar EXCEPT !.focusTracker = @ \cup {items[i] : i \in DOMAIN items}]} :
       \E t2 \in {BehaviorUpdate(t1, Geometry(toolbarWidth), TRUE, inBody)} :
          /\ Commit(t2)
          /\ tbCall' = TbCall("render", Outcome(t2), BehaviorOutcome(t1, t2, TRUE, inBody))
          /\ Finish(t2)
    /\ UNCHANGED <<items, inBody, toolbarWidth, uiLanguageDirection>>
    /\ UNCHANGED <<docVars, tolerated, shouldGroupWhenFull, itemNames>>

\* The application puts the toolbar element into the document, or takes it out.
attachToBody ==
    /\ InUse
    /\ rendered /\ ~inBody
    /\ inBody' = TRUE
    /\ tbCall' = TbCall("attach", "ok", "none")
    /\ UNCHANGED <<items, ungroupedItems, groupedItems, viewChildren, viewFocusables,
                   focusTracker, cachedPadding, rendered, previousWidth, toolbarWidth,
                   padding, uiLanguageDirection, exceptions, itemsViewChildren>>
    /\ UNCHANGED <<docVars, tolerated, shouldGroupWhenFull, itemNames>>

detachFromBody ==
    /\ InUse
    /\ inBody
    /\ inBody' = FALSE
    /\ tbCall' = TbCall("detach", "ok", "none")
    /\ UNCHANGED <<items, ungroupedItems, groupedItems, viewChildren, viewFocusables,
                   focusTracker, cachedPadding, rendered, previousWidth, toolbarWidth,
                   padding, uiLanguageDirection, exceptions, itemsViewChildren>>
    /\ UNCHANGED <<docVars, tolerated, shouldGroupWhenFull, itemNames>>

\* entry.contentRect.width of an element of the given width.
ContentWidth(width) == IF width > 2 * padding THEN width - 2 * padding ELSE 0

\* The width of this pass against the width of the pass of the call before.
Trend(width, grouping) ==
    IF tbCall.grouping = "returned" /\ grouping = "returned"
    THEN IF width < toolbarWidth THEN "shrunk"
         ELSE IF width > toolbarWidth THEN "grown" ELSE "same"
    ELSE "none"

\* The callback of the resize observer set up by _enableGroupingOnResize.
resizeCallback(width) ==
    /\ InUse
    /\ shouldGroupWhenFull
    /\ rendered
    /\ Len(viewChildren) < MaxViewChildren
    /\ toolbarWidth' = width
    /\ IF previousWidth = Null \/ previousWidth = 0 \/ previousWidth # ContentWidth(width)
       THEN \E t1 \in {Toolbar} :
            \E t2 \in {UpdateGrouping(t1, Geometry(width), rendered, inBody)} :
               /\ Commit(t2)
               /\ previousWidth' = IF t2.thrown THEN previousWidth ELSE ContentWidth(width)
               /\ tbCall' = [TbCall("resize", Outcome(t2),
                                    GroupingOutcome(t1, t2, rendered, inBody))
                                EXCEPT !.moves = t2.moves, !.queried = t2.queried,
                                       !.trend = Trend(width, GroupingOutcome(t1, t2, rendered, inBody))]
               /\ Finish(t2)
       ELSE /\ Commit(Toolbar)
            /\ UNCHANGED previousWidth
            /\ tbCall' = TbCall("resize", "ok", "none")
            /\ UNCHANGED exceptions
    /\ UNCHANGED <<items, rendered, inBody, padding, uiLanguageDirection>>
    /\ UNCHANGED <<docVars, tolerated, shouldGroupWhenFull, itemNames>>

(***************************************************************************)
(* ToolbarView.destroy().                                                  *)
(***************************************************************************)
\* DynamicGrouping.destroy(): resizeObserver is null until render() has
\* called _enableGroupingOnResize.
DynamicGroupingDestroy(isRendered) ==
    [destroyed |-> {"groupedItemsDropdown"} \cup
                      (IF isRendered THEN {"resizeObserver"} ELSE {}),
     thrown |-> ~isRendered]

\* StaticLayout.destroy() {}
StaticLayoutDestroy(isRendered) == [destroyed |-> {}, thrown |-> FALSE]

\* this._behavior.destroy()
BehaviorDestroy(isRendered) ==
    IF shouldGroupWhenFull THEN DynamicGroupingDestroy(isRendered)
    ELSE StaticLayoutDestroy(isRendered)

\* return super.destroy()
ViewDestroy(d) == IF d.thrown THEN d ELSE [d EXCEPT !.destroyed = @ \cup {"view"}]

toolbarDestroy ==
    /\ InUse
    /\ \E d \in {ViewDestroy(BehaviorDestroy(rendered))} :
          /\ tbCall' = [TbCall("destroy", Outcome(d), "none")
                           EXCEPT !.destroyed = d.destroyed]
          /\ Finish(d)
    /\ UNCHANGED <<items, ungroupedItems, groupedItems, viewChildren, viewFocusables,
                   focusTracker, cachedPadding, rendered, inBody, previousWidth,
                   toolbarWidth, padding, uiLanguageDirection, itemsViewChildren>>
    /\ UNCHANGED <<docVars, tolerated, shouldGroupWhenFull, itemNames>>

(***************************************************************************)
(* Specifications.                                                         *)
(***************************************************************************)
DocumentCalls(names) ==
    \/ \E domRoot \in TagNames \cup DomElements, name \in names : createRoot(domRoot, name)
    \/ \E el \in DomElements, name \in names : attachDomRoot(el, name)
    \/ renderBegin
    \/ renderEnd
    \/ renderThrow

TreeChanges(names) ==
    \/ \E name \in names, key \in AttrNames, value \in AttrValues :
           setAttribute(name, key, value)
    \/ \E name \in names, key \in AttrNames : removeAttribute(name, key)
    \/ \E name \in names, i \in 1..(MaxChildren + 1), data \in TextData :
           insertChildren(name, i, data)
    \/ \E name \in names, i \in 1..MaxChildren : removeChildren(name, i)
    \/ \E name \in names, i \in 1..MaxChildren, data \in TextData :
           setTextData(name, i, data)

\* The registry of roots and observers, and render(): the trees do not change.
RegistryNext ==
    \/ \E type \in ObserverTypes : addObserver(type)
    \/ DocumentCalls(Names)

\* One named root, its tree's changes and render(): no observers.
TreeNext ==
    \/ DocumentCalls({"main"})
    \/ TreeChanges({"main"})

DocNext ==
    \/ \E type \in ObserverTypes : addObserver(type)
    \/ DocumentCalls(Names)
    \/ TreeChanges(Names)

\* A toolbar with the dynamic grouping behavior: no Document calls.
ToolbarNext ==
    \/ \E item \in Items, index \in 0..MaxItems : itemsAdd(item, index)
    \/ \E item \in Items : itemsRemove(item)
    \/ toolbarRender
    \/ attachToBody
    \/ detachFromBody
    \/ \E width \in Widths : resizeCallback(width)

Init == DocInit /\ TbInit
\* The Document alone, beside a toolbar of a left-to-right locale.
InitDocument == Init /\ uiLanguageDirection = "ltr"
Next == DocNext \/ ToolbarNext
DocSpec == InitDocument /\ [][DocNext]_vars
TreeSpec == InitDocument /\ [][TreeNext]_vars
RegistrySpec == InitDocument /\ [][RegistryNext]_vars
ToolbarSpec == Init /\ [][ToolbarNext]_vars
\* The registry of roots and observers with render() passes that return.
RootsNext ==
    \/ \E type \in ObserverTypes : addObserver(type)
    \/ \E domRoot \in TagNames \cup DomElements, name \in Names : createRoot(domRoot, name)
    \/ \E el \in DomElements, name \in Names : attachDomRoot(el, name)
    \/ renderBegin
    \/ renderEnd

RootsSpec == InitDocument /\ [][RootsNext]_vars

\* One root, attached to the empty paragraph, whose tree changes between
\* render() passes that return.
NotifyNext ==
    \/ \E domRoot \in TagNames \cup {"e2"} : createRoot(domRoot, "main")
    \/ attachDomRoot("e2", "main")
    \/ setAttribute("main", "class", "a")
    \/ removeAttribute("main", "class")
    \/ insertChildren("main", 1, "x")
    \/ removeChildren("main", 1)
    \/ \E i \in 1..MaxChildren : setTextData("main", i, "y")
    \/ renderBegin
    \/ renderEnd

NotifySpec == InitDocument /\ [][NotifyNext]_vars

\* The registry of one root, with render() called again from within a pass.
ReentrantNext ==
    \/ \E type \in ObserverTypes : addObserver(type)
    \/ DocumentCalls({"main"})
    \/ renderReentrant

ReentrantSpec == InitDocument /\ [][ReentrantNext]_vars

\* The same toolbar, used on after one more exception.
InitTolerant == DocInit /\ TbInitTolerating(MaxExceptions + 1)
TolerantToolbarSpec == InitTolerant /\ [][ToolbarNext]_vars

\* The toolbar with the dynamic grouping behavior, destroyed at some point.
DestroyNext ==
    \/ ToolbarNext
    \/ toolbarDestroy

DestroySpec == Init /\ [][DestroyNext]_vars

\* A toolbar with the static layout: it has no resize observer.
StaticNext ==
    \/ \E item \in Items, index \in 0..MaxItems : itemsAdd(item, index)
    \/ \E item \in Items : itemsRemove(item)
    \/ toolbarRender
    \/ attachToBody
    \/ detachFromBody

InitStatic == DocInit /\ StaticInit

\* A toolbar of either behavior filled from configurations.
FillNext ==
    \/ \E config \in Configs, factory \in Factories : fillFromConfig(config, factory)
    \/ toolbarRender
    \/ attachToBody
    \/ detachFromBody
    \/ \E width \in Widths : resizeCallback(width)

FillSpec == (Init \/ InitStatic) /\ [][FillNext]_vars
StaticSpec == InitStatic /\ [][StaticNext]_vars
Spec == Init /\ [][Next]_vars

(***************************************************************************)
(* Document: the claims.                                                   *)
(***************************************************************************)
AllObservers(enabled) ==
    \A type \in DOMAIN observers : observers[type].enabled = enabled

RenderReturned == pc = "idle" /\ lastCall.op = "render" /\ lastCall.outcome = "ok"

\* C3: while the renderer's reconciliation runs no registered observer is
\* enabled, and when render() returns every registered observer is enabled.
C3_RenderBracketsObservers ==
    /\ pc = "rendering" => AllObservers(FALSE)
    /\ RenderReturned => AllObservers(TRUE)

C3_Witness ==
    /\ RenderReturned
    /\ DOMAIN observers = ObserverTypes
    /\ DOMAIN domRoots # {}

\* C4: no exit from render(), normal or by an exception of the renderer,
\* leaves a registered observer disabled.
C4_ObserversEnabledAfterAnyExit ==
    (pc = "idle" /\ lastCall.op = "render") => AllObservers(TRUE)

StructurallyEquivalent(domElement, view) ==
    /\ domElement.tag = view.tag
    /\ domElement.attrs = view.attrs
    /\ domElement.children = view.children

\* C5: after render() the DOM root attached to a view root is structurally
\* equivalent to it: tag, attributes, text and child order.
C5_DomEquivalentAfterRender ==
    RenderReturned =>
        \A name \in DOMAIN viewRoots \cap DOMAIN domRoots :
            LET viewRoot == viewRoots[name]
                el == domRoots[name]
            IN (MapGet(domToView, el, NoView) = viewRoot
                    /\ MapGet(viewToDom, viewRoot, Undefined) = el)
               => StructurallyEquivalent(dom[el], views[viewRoot])

\* C6: one instance per observer type.  Only the first addObserver(T)
\* constructs; every call returns the registered instance, which is what
\* getObserver(T) returns (0: undefined, never added); a later call leaves
\* the observers as they are: nothing is observed again or enabled again.
OneInstancePerType ==
    /\ \A type \in ObserverTypes :
          /\ constructions[type] <= 1
          /\ MapHas(observers, type) <=> constructions[type] = 1
          /\ getObserver(type) = constructions[type]
    /\ lastCall.op = "addObserver" =>
          /\ MapHas(observers, lastCall.arg)
          /\ lastCall.ret = getObserver(lastCall.arg)

AddObserverStep == pc = "idle" /\ pc' = "idle" /\ lastCall'.op = "addObserver"

C6_OneObserverPerType ==
    /\ []OneInstancePerType
    /\ [][(AddObserverStep /\ MapHas(observers, lastCall'.arg))
             => (observers' = observers /\ constructions' = constructions)]_vars

\* addObserver(T) was called for a registered T that a failed render() had
\* left disabled, and T is still disabled.
C6_Witness ==
    /\ pc = "idle"
    /\ lastCall.op = "addObserver"
    /\ ~observers[lastCall.arg].enabled
    /\ BagCardinality(observers[lastCall.arg].observed) > 0

\* C7: when every name was attached at most once, every registered observer
\* has observed every attached DOM root exactly once, and nothing else.
DistinctRootNames == \A name \in Names : attachCalls[name] <= 1

C7_EveryRootObservedOnce ==
    DistinctRootNames =>
        \A type \in DOMAIN observers :
            observers[type].observed =
                SetToBag({<<domRoots[name], name>> : name \in DOMAIN domRoots})

\* Both roots are attached and both observers registered, the last root after
\* them.
C7_Witness ==
    /\ DistinctRootNames
    /\ DOMAIN observers = ObserverTypes
    /\ DOMAIN domRoots = Names
    /\ lastCall.op = "attachDomRoot"

\* C8: after attachDomRoot(el, name) for a created root, getDomRoot(name) is
\* el, the converter binds el and the view root to each other, and the view
\* root is marked CHILDREN in the renderer until the next render() ends.
C8_AttachBindsAndMarks ==
    (lastCall.op = "attachDomRoot" /\ MapHas(viewRoots, lastCall.name)) =>
        LET el == lastCall.arg
            viewRoot == viewRoots[lastCall.name]
        IN /\ getDomRoot(lastCall.name) = el
           /\ MapGet(domToView, el, NoView) = viewRoot
           /\ MapGet(viewToDom, viewRoot, Undefined) = el
           /\ HasMark("CHILDREN", viewRoot, 0)

\* The root was created from a tag name and the paragraph attached to it.
C8_Witness ==
    /\ lastCall.op = "attachDomRoot"
    /\ lastCall.arg = "e2"
    /\ MapHas(viewRoots, lastCall.name)
    /\ views[viewRoots[lastCall.name]].tag = "div"

\* C9: every name registered in domRoots is registered in viewRoots.
C9_DomRootsHaveViewRoots ==
    \A name \in DOMAIN domRoots : MapHas(viewRoots, name)

\* C10: a view root registered under a name stays the one registered under
\* it: createRoot never replaces it.
C10_NoShadowing ==
    [][\A name \in DOMAIN viewRoots :
          MapHas(viewRoots', name) /\ viewRoots'[name] = viewRoots[name]]_vars

\* createRoot( domRoot, name ) ran, with a live DOM element or with a tag name.
CreateRootStep(live) ==
    /\ lastCall'.op = "createRoot"
    /\ Len(views') = Len(views) + 1
    /\ (lastCall'.arg \in DomElements) = live

\* attachDomRoot( domElement, name ) ran right after
\* createRoot( domElement.tagName, name ).
AttachAfterCreateStep ==
    /\ lastCall.op = "createRoot"
    /\ lastCall.arg \in TagNames
    /\ lastCall'.op = "attachDomRoot"
    /\ lastCall'.name = lastCall.name
    /\ dom[lastCall'.arg].tag = lastCall.arg

\* What createRoot leaves of the view root: a new root of the tag, registered
\* under the name, with the Document listening to its changes.
LeavesViewRoot(tag, name) ==
    /\ views' = Append(views, [tag |-> tag, attrs |-> EmptyMap, children |-> <<>>])
    /\ viewRoots' = MapSet(viewRoots, name, Len(views'))
    /\ changeListeners' = changeListeners \cup {Len(views')}

\* What the attachment leaves: the domRoots entry, the converter's binding,
\* the CHILDREN mark and one more observation by every registered observer.
LeavesAttached(el, name) ==
    LET viewRoot == viewRoots'[name]
    IN /\ domRoots' = MapSet(domRoots, name, el)
       /\ domToView' = MapSet(domToView, el, viewRoot)
       /\ viewToDom' = MapSet(viewToDom, viewRoot, el)
       /\ markedToSync' = markedToSync \cup
              {[kind |-> "CHILDREN", root |-> viewRoot, idx |-> 0]}
       /\ DOMAIN observers' = DOMAIN observers
       /\ \A type \in DOMAIN observers :
             /\ observers'[type].enabled = observers[type].enabled
             /\ observers'[type].observed =
                    observers[type].observed (+) SetToBag({<<el, name>>})

LeavesDetached ==
    UNCHANGED <<domRoots, domToView, viewToDom, markedToSync, observers>>

\* C24: createRoot( domElement, name ) with a live DOM element leaves what
\* createRoot( domElement.tagName, name ) followed by
\* attachDomRoot( domElement, name ) leaves: the same viewRoots and domRoots
\* entries, converter binding, CHILDREN mark and observations; and
\* createRoot( tagName, name ) alone leaves domRoots as it was.
C24_CreateRootAttachesElement ==
    [][/\ CreateRootStep(TRUE) =>
             /\ LeavesViewRoot(dom[lastCall'.arg].tag, lastCall'.name)
             /\ LeavesAttached(lastCall'.arg, lastCall'.name)
       /\ CreateRootStep(FALSE) =>
             /\ LeavesViewRoot(lastCall'.arg, lastCall'.name)
             /\ LeavesDetached
       /\ AttachAfterCreateStep =>
             /\ UNCHANGED <<views, viewRoots, changeListeners>>
             /\ viewRoots[lastCall.name] = Len(views)
             /\ LeavesAttached(lastCall'.arg, lastCall'.name)]_vars

\* createRoot was given the div#editor element when both observers were
\* registered.
C24_Witness ==
    /\ lastCall.op = "createRoot"
    /\ lastCall.arg = "e1"
    /\ getDomRoot(lastCall.name) = "e1"
    /\ DOMAIN observers = ObserverTypes
    /\ \A type \in ObserverTypes :
          CopiesIn(<<"e1", lastCall.name>>, observers[type].observed) > 0

\* A view root fired 'change' with ( lastCall'.arg, the node lastCall'.ret ).
ChangeStep == lastCall'.op = "change" /\ changes' = changes + 1
\* attachDomRoot ran, called directly or by createRoot.
AttachStep == \E name \in Names : attachCalls'[name] = attachCalls[name] + 1
\* A step of render(): its begin, or its end.
RenderStep == pc' # pc

\* C25: a change notification ( kind, node ) of a view root made by createRoot
\* puts the entry ( kind, node ), and nothing else, into the renderer's dirty
\* set in the step that emits it; the dirty set grows in no other step than
\* a notification or attachDomRoot, and never in a step of render().
C25_ChangesForwardedToRenderer ==
    [][/\ ChangeStep =>
             markedToSync' = markedToSync \cup
                 {[kind |-> lastCall'.arg, root |-> viewRoots[lastCall'.name],
                   idx |-> lastCall'.ret]}
       /\ ~(markedToSync' \subseteq markedToSync) => (ChangeStep \/ AttachStep)
       /\ RenderStep => markedToSync' \subseteq markedToSync]_vars

\* A text node and an attribute of the root changed since the last render().
C25_Witness ==
    /\ lastCall.op = "change"
    /\ lastCall.arg = "TEXT"
    /\ lastCall.ret > 0
    /\ HasMark("TEXT", viewRoots[lastCall.name], lastCall.ret)
    /\ HasMark("ATTRIBUTES", viewRoots[lastCall.name], 0)
    /\ ~HasMark("CHILDREN", viewRoots[lastCall.name], 0)

\* A call of render() made while a render pass of the Document is in progress.
ReentrantCall == pc = "rendering" /\ pc' = "rendering"

\* C21: at most one render pass is in progress on a Document.  render()
\* called during a pass ends at once with an error: it starts no nested
\* reconciliation (the DOM and the dirty set stay as they are) and enables no
\* observer inside the outer pass.
C21_NoReentrantRender ==
    [][ReentrantCall =>
          /\ lastCall'.op = "render"
          /\ lastCall'.outcome = "throw"
          /\ dom' = dom
          /\ markedToSync' = markedToSync
          /\ observers' = observers]_vars

(***************************************************************************)
(* ToolbarView with DynamicGrouping: the claims.                           *)
(***************************************************************************)
\* C1: in every state view.items is ungroupedItems followed by groupedItems,
\* the same elements in the same order.
C1_ItemsAreUngroupedThenGrouped == items = ungroupedItems \o groupedItems

\* The trailing edge of the i-th ungrouped item: itemsView is the first child
\* of the toolbar element, its items lie one after another.
TrailingEdge(i) ==
    IF uiLanguageDirection = "ltr"
    THEN padding + ItemsWidth(SubSeq(ungroupedItems, 1, i))
    ELSE toolbarWidth - padding - ItemsWidth(SubSeq(ungroupedItems, 1, i))

WithinContainer(edge) ==
    IF uiLanguageDirection = "ltr"
    THEN edge <= toolbarWidth - cachedPadding
    ELSE edge >= 0 + cachedPadding

GroupingReturned == inBody /\ tbCall.grouping = "returned"

\* C2: when _updateGrouping has returned on a toolbar in the visible
\* document, no ungrouped item's trailing edge lies beyond the container's
\* trailing edge less the cached padding (right edges in ltr, left in rtl).
C2_UngroupedItemsFit ==
    GroupingReturned =>
        \A i \in 1..Len(ungroupedItems) : WithinContainer(TrailingEdge(i))

\* A resize left some items in the row and the others in the dropdown.
C2_Witness ==
    /\ GroupingReturned
    /\ tbCall.op = "resize"
    /\ Len(ungroupedItems) > 0
    /\ Len(groupedItems) > 0

\* The last toolbar operation ran to its end.
Completed == tbCall.outcome = "ok"

Count(seq, x) == Cardinality({i \in DOMAIN seq : seq[i] = x})

DropdownShown ==
    /\ Count(viewChildren, "separator") = 1
    /\ Count(viewChildren, "dropdown") = 1
    /\ Dropdown \in focusTracker

DropdownHidden ==
    /\ Count(viewChildren, "separator") = 0
    /\ Count(viewChildren, "dropdown") = 0
    /\ Dropdown \notin focusTracker

C12_FocusablesDerived ==
    Completed =>
        viewFocusables =
            ungroupedItems \o (IF Len(groupedItems) # 0 THEN <<Dropdown>> ELSE <<>>)

\* Two successive calls made their _updateGrouping passes on the same items,
\* the second one from a resize callback.
SuccessivePasses ==
    /\ GroupingReturned
    /\ tbCall'.op = "resize"
    /\ tbCall'.grouping = "returned"

\* The trailing ungrouped items went, in order, to the front of groupedItems.
OnlyGrouped ==
    /\ Len(ungroupedItems') <= Len(ungroupedItems)
    /\ ungroupedItems' = SubSeq(ungroupedItems, 1, Len(ungroupedItems'))
    /\ groupedItems' =
           SubSeq(ungroupedItems, Len(ungroupedItems') + 1, Len(ungroupedItems))
               \o groupedItems

\* The leading grouped items went, in order, to the end of ungroupedItems.
OnlyUngrouped ==
    /\ Len(groupedItems') <= Len(groupedItems)
    /\ groupedItems' =
           SubSeq(groupedItems, Len(groupedItems) - Len(groupedItems') + 1,
                  Len(groupedItems))
    /\ ungroupedItems' =
           ungroupedItems
               \o SubSeq(groupedItems, 1, Len(groupedItems) - Len(groupedItems'))

\* C13: from one pass to the next on the same items, a width that did not
\* grow only moves trailing ungrouped items, in order, into groupedItems, and
\* a width that did not shrink only moves a prefix of groupedItems back, in
\* order.
C13_MonotoneInWidth ==
    [][SuccessivePasses =>
          /\ toolbarWidth' <= toolbarWidth => OnlyGrouped
          /\ toolbarWidth' >= toolbarWidth => OnlyUngrouped]_vars

\* A narrower toolbar: a pass grouped some of the ungrouped items.
C13_Witness ==
    /\ GroupingReturned
    /\ tbCall.trend = "shrunk"
    /\ tbCall.moves > 0
    /\ Len(ungroupedItems) > 0
    /\ Len(groupedItems) > 0

\* A wider toolbar: a pass took some of the grouped items back.
GrownWitness ==
    /\ GroupingReturned
    /\ tbCall.trend = "grown"
    /\ tbCall.moves > 0
    /\ Len(ungroupedItems) > 0
    /\ Len(groupedItems) > 0

\* C14: when _updateGrouping has returned on a toolbar in the visible document
\* and groupedItems is not empty, the toolbar with the first grouped item
\* moved back to the end of ungroupedItems overflows.
C14_StableFixedPoint ==
    (GroupingReturned /\ Len(groupedItems) # 0) =>
        \E moved \in {UngroupFirstItem(Toolbar)} :
            /\ ~moved.thrown
            /\ moved.ungroupedItems = Append(ungroupedItems, groupedItems[1])
            /\ AreItemsOverflowing(moved, Geometry(toolbarWidth))

\* A wider toolbar took one item back and could not take the next one.
C14_Witness ==
    /\ GroupingReturned
    /\ tbCall.trend = "grown"
    /\ tbCall.moves > 0
    /\ Len(groupedItems) # 0

\* C15: every _updateGrouping pass ends, having moved at most one item more
\* than the toolbar has.
C15_MovesBounded ==
    (tbCall.grouping \in {"returned", "threw"}) => tbCall.moves <= Len(items) + 1

\* A resize callback reports the content width the callback before reported.
SameWidthReported ==
    /\ tbCall'.op = "resize"
    /\ previousWidth # Null
    /\ previousWidth = ContentWidth(toolbarWidth)
    /\ ContentWidth(toolbarWidth)' = ContentWidth(toolbarWidth)

\* C16: a resize callback that reports the content width of the callback
\* before it does not call _updateGrouping.
C16_SameWidthSkipsGrouping ==
    [][SameWidthReported => tbCall'.grouping = "none"]_vars

\* An item insertion, an item removal or a resize callback on a toolbar whose
\* element is not in the visible document.
DetachedTrigger ==
    /\ ~inBody
    /\ tbCall'.op \in {"add", "remove", "resize"}

\* C17: a grouping trigger on a toolbar that is not in the visible document,
\* rendered or not, raises no error, measures nothing, moves no item between
\* ungroupedItems and groupedItems and leaves the toolbar's children as they
\* are.
C17_DetachedTriggerIsInert ==
    [][DetachedTrigger =>
          /\ tbCall'.outcome = "ok"
          /\ tbCall'.grouping \in {"none", "skipped"}
          /\ tbCall'.moves = 0
          /\ cachedPadding' = cachedPadding
          /\ viewChildren' = viewChildren]_vars

\* C18: once an overflow check has read the padding from the computed style,
\* no later operation queries the computed style again.
C18_PaddingReadOnce ==
    [][cachedPadding # Null => ~tbCall'.queried]_vars

\* C19: fillFromConfig throws nothing and appends to items, in the order of
\* the configuration, one view for each "|" and for each name the factory
\* has; every other name gives a warning and no item.
C19_FillFromConfig ==
    [][tbCall'.op = "fillFromConfig" =>
          LET made == Recognized(tbCall'.config, tbCall'.factory)
          IN /\ tbCall'.outcome = "ok"
             /\ Len(items') = Len(items) + Len(made)
             /\ SubSeq(items', 1, Len(items)) = items
             /\ \A i \in 1..Len(made) :
                    MapGet(itemNames', items'[Len(items) + i], Undefined) = made[i]
             /\ tbCall'.warned = Unrecognized(tbCall'.config, tbCall'.factory)]_vars

\* C20: with the static layout, itemsView.children and focusables are items,
\* view for view and in the same order, and there is neither a grouping
\* collection nor a dropdown.
C20_StaticPassThrough ==
    ~shouldGroupWhenFull =>
        /\ itemsViewChildren = items
        /\ viewFocusables = items
        /\ ungroupedItems = <<>>
        /\ groupedItems = <<>>
        /\ viewChildren = <<"itemsView">>
        /\ Dropdown \notin focusTracker

\* An item was removed from a static toolbar whose other items had been
\* inserted out of order.
C20_Witness ==
    /\ ~shouldGroupWhenFull
    /\ tbCall.op = "remove"
    /\ Len(items) = 2
    /\ items[1] > items[2]

\* items.add( item, index ) ran: the item it added and the index it took.
ItemAdded == tbCall'.op = "add" /\ Len(items') = Len(items) + 1
AddedIndex == CHOOSE i \in 0..Len(items) : items' = InsertAt(items, i + 1, items'[i + 1])
AddedItem == items'[AddedIndex + 1]
\* The toolbar when the 'add' listener has placed the item, before its
\* _updateGrouping call.
Placed == OnItemAdded(Toolbar, AddedItem, AddedIndex)

\* C22: an item inserted into view.items at index i goes to ungroupedItems at
\* index i when i is within the length of ungroupedItems, and to groupedItems
\* at index i - ungroupedItems.length otherwise; once it is placed, before
\* the grouping pass, items is ungroupedItems followed by groupedItems.
C22_InsertionIndexPolicy ==
    [][ItemAdded =>
          /\ ~Placed.thrown
          /\ IF AddedIndex <= Len(ungroupedItems)
             THEN /\ Placed.ungroupedItems = InsertAt(ungroupedItems, AddedIndex + 1, AddedItem)
                  /\ Placed.groupedItems = groupedItems
             ELSE /\ Placed.ungroupedItems = ungroupedItems
                  /\ Placed.groupedItems =
                         InsertAt(groupedItems, AddedIndex - Len(ungroupedItems) + 1, AddedItem)
          /\ items' = Placed.ungroupedItems \o Placed.groupedItems]_vars

\* items.remove( item ) ran: the item it removed and the index it had.
ItemRemoved == tbCall'.op = "remove" /\ Len(items') = Len(items) - 1
RemovedIndex == CHOOSE i \in 0..(Len(items) - 1) : items' = RemoveAt(items, i + 1)
RemovedItem == items[RemovedIndex + 1]
\* The toolbar when the 'remove' listener has dealt with the item, before its
\* _updateGrouping call.
Dropped == OnItemRemoved(Toolbar, RemovedItem, RemovedIndex)

\* C23: an item removed from view.items, whatever its index (the first
\* grouped item included), is removed from the one of ungroupedItems and
\* groupedItems that held it without an error, and is in neither afterwards.
C23_RemovalFromEitherCollection ==
    [][ItemRemoved =>
          /\ ~Dropped.thrown
          /\ ~Contains(Dropped.ungroupedItems, RemovedItem)
          /\ ~Contains(Dropped.groupedItems, RemovedItem)]_vars

\* C26: destroy() of a toolbar with the dynamic grouping behavior ends
\* without an error in every state of its life, before render() too: it
\* destroys the grouped items dropdown, in the toolbar children or not, and
\* disconnects the resize observer when render() has made one.
C26_DestroyInEveryState ==
    tbCall.op = "destroy" =>
        /\ tbCall.outcome = "ok"
        /\ "groupedItemsDropdown" \in tbCall.destroyed
        /\ rendered => "resizeObserver" \in tbCall.destroyed

====
